---- MODULE Spec2Model ----
(***************************************************************************)
(* A model of the rlog logging library: the filter engine (filterSpec),   *)
(* the root logger's BasicLog pipeline, SetOutput, and the contextual     *)
(* sub-logger.  Strings are sequences of one-character strings, so that   *)
(* splitting, upper-casing, number parsing and glob matching are computed *)
(* character by character, as the Go code computes them.                  *)
(***************************************************************************)
EXTENDS Integers, Sequences, FiniteSets, TLC

(***************************************************************************)
(* Bounds of the model.                                                    *)
(***************************************************************************)
\* longest filter specification, in comma separated tokens
MaxTokens == 2
\* largest trace sub-level a call passes
MaxTraceLevel == 2
\* log calls one goroutine makes
MaxCalls == 1
\* sub-loggers derived
MaxSubs == 2
\* sub-loggers derived from a slice of the caller, on top of MaxSubs
MaxArrs == 1
\* longest field value and message handed to a formatter, in characters
MaxValueLen == 3

(***************************************************************************)
(* Program constants.                                                      *)
(***************************************************************************)
notATrace == -1
noTraceOutput == -1
levelNone == 0
levelCrit == 1
levelErr == 2
levelWarn == 3
levelInfo == 4
levelDebug == 5
levelTrace == 6

Nil == "nil"

(***************************************************************************)
(* Strings.                                                                *)
(***************************************************************************)
EmptyStr == << >>
sNONE == <<"N","O","N","E">>
sCRITICAL == <<"C","R","I","T","I","C","A","L">>
sERROR == <<"E","R","R","O","R">>
sWARN == <<"W","A","R","N">>
sINFO == <<"I","N","F","O">>
sDEBUG == <<"D","E","B","U","G">>
sTRACE == <<"T","R","A","C","E">>

Min(S) == CHOOSE x \in S : \A y \in S : x <= y
Max(S) == CHOOSE x \in S : \A y \in S : x >= y

\* strings.Index for a one-character separator: 0 when absent
IndexByte(s, c) ==
    IF \E i \in 1..Len(s) : s[i] = c
    THEN Min({i \in 1..Len(s) : s[i] = c})
    ELSE 0

\* strings.Split(s, c): the empty string gives one empty field
RECURSIVE Split(_, _)
Split(s, c) ==
    LET i == IndexByte(s, c)
    IN  IF i = 0 THEN <<s>>
        ELSE <<SubSeq(s, 1, i - 1)>> \o Split(SubSeq(s, i + 1, Len(s)), c)

\* strings.Join(parts, c)
RECURSIVE Join(_, _)
Join(parts, c) ==
    IF parts = << >> THEN EmptyStr
    ELSE IF Len(parts) = 1 THEN parts[1]
    ELSE parts[1] \o <<c>> \o Join(Tail(parts), c)

UpperOf(ch) ==
    CASE ch = "a" -> "A" [] ch = "b" -> "B" [] ch = "d" -> "D"
      [] ch = "e" -> "E" [] ch = "f" -> "F" [] ch = "g" -> "G"
      [] ch = "i" -> "I" [] ch = "n" -> "N" [] ch = "o" -> "O"
      [] ch = "r" -> "R" [] ch = "u" -> "U" [] ch = "w" -> "W"
      [] ch = "x" -> "X"
      [] OTHER -> ch

\* strings.ToUpper
ToUpper(s) == [i \in 1..Len(s) |-> UpperOf(s[i])]

Digits == {"0","1","2","3","4","5","6","7","8","9"}
DigitVal(ch) ==
    CASE ch = "0" -> 0 [] ch = "1" -> 1 [] ch = "2" -> 2 [] ch = "3" -> 3
      [] ch = "4" -> 4 [] ch = "5" -> 5 [] ch = "6" -> 6 [] ch = "7" -> 7
      [] ch = "8" -> 8 [] ch = "9" -> 9

RECURSIVE DecVal(_)
DecVal(s) ==
    IF s = << >> THEN 0
    ELSE 10 * DecVal(SubSeq(s, 1, Len(s) - 1)) + DigitVal(s[Len(s)])

\* strconv.Atoi: an optional sign and at least one decimal digit
Atoi(s) ==
    LET signed == s # << >> /\ s[1] \in {"-", "+"}
        body == IF signed THEN Tail(s) ELSE s
        ok == body # << >> /\ \A i \in 1..Len(body) : body[i] \in Digits
    IN  [ok |-> ok,
         val |-> IF ~ok THEN 0
                 ELSE IF signed /\ s[1] = "-" THEN 0 - DecVal(body)
                 ELSE DecVal(body)]

\* filepath.Base: the last element of the path, "." for the empty path
RECURSIVE StripTrailingSlashes(_)
StripTrailingSlashes(s) ==
    IF s # << >> /\ s[Len(s)] = "/"
    THEN StripTrailingSlashes(SubSeq(s, 1, Len(s) - 1))
    ELSE s

Base(path) ==
    IF path = << >> THEN <<".">>
    ELSE LET p == StripTrailingSlashes(path)
             slashes == {i \in 1..Len(p) : p[i] = "/"}
         IN  IF p = << >> THEN <<"/">>
             ELSE IF slashes = {} THEN p
             ELSE SubSeq(p, Max(slashes) + 1, Len(p))

\* filepath.Match for patterns of literals, '?' and '*'
RECURSIVE Match(_, _)
Match(pattern, name) ==
    IF pattern = << >> THEN name = << >>
    ELSE IF Head(pattern) = "*"
    THEN \E k \in 0..Len(name) :
            /\ \A i \in 1..k : name[i] # "/"
            /\ Match(Tail(pattern), SubSeq(name, k + 1, Len(name)))
    ELSE /\ name # << >>
         /\ IF Head(pattern) = "?" THEN Head(name) # "/"
            ELSE Head(name) = Head(pattern)
         /\ Match(Tail(pattern), Tail(name))

(***************************************************************************)
(* The filter engine.                                                      *)
(***************************************************************************)
LevelNames == {sTRACE, sDEBUG, sINFO, sWARN, sERROR, sCRITICAL, sNONE}

levelNumbers(name) ==
    CASE name = sTRACE -> levelTrace
      [] name = sDEBUG -> levelDebug
      [] name = sINFO -> levelInfo
      [] name = sWARN -> levelWarn
      [] name = sERROR -> levelErr
      [] name = sCRITICAL -> levelCrit
      [] name = sNONE -> levelNone

\* one filter of a chain
filter(pattern, level) == [Pattern |-> pattern, Level |-> level]

\* the body of the loop of fromString, for one comma separated field f
fromStringToken(acc, f, isTraceLevels) ==
    LET tokens == Split(f, "=")
        wellFormed == Len(tokens) \in {1, 2}
        matchToken == IF Len(tokens) = 2 THEN tokens[1] ELSE EmptyStr
        rawLevel == IF Len(tokens) = 2 THEN tokens[2] ELSE tokens[1]
        num == Atoi(rawLevel)
        levelToken == ToUpper(rawLevel)
        known == levelToken \in LevelNames
        valid == /\ wellFormed
                 /\ IF isTraceLevels THEN num.ok
                    ELSE known /\ levelNumbers(levelToken) # levelTrace
        filterLevel == IF isTraceLevels THEN num.val ELSE levelNumbers(levelToken)
    IN  IF ~valid THEN acc
        ELSE IF matchToken = EmptyStr
        THEN [acc EXCEPT !.globalLevel = filterLevel]
        ELSE [acc EXCEPT !.filters = Append(@, filter(matchToken, filterLevel)),
                         !.hasAnyFilterAPattern = TRUE]

RECURSIVE fromStringLoop(_, _, _)
fromStringLoop(acc, fields, isTraceLevels) ==
    IF fields = << >> THEN acc
    ELSE fromStringLoop(fromStringToken(acc, Head(fields), isTraceLevels),
                        Tail(fields), isTraceLevels)

\* a loop that gives up at the first field that changes nothing
RECURSIVE fromStringLoopAbort(_, _, _)
fromStringLoopAbort(acc, fields, isTraceLevels) ==
    IF fields = << >> THEN acc
    ELSE IF fromStringToken(acc, Head(fields), isTraceLevels) = acc THEN acc
    ELSE fromStringLoopAbort(fromStringToken(acc, Head(fields), isTraceLevels),
                             Tail(fields), isTraceLevels)

\* fromString that stops reading at the first field that changes nothing
fromStringAbort(s, isTraceLevels, globalLevelDefault) ==
    LET acc == fromStringLoopAbort([filters |-> << >>,
                                    globalLevel |-> globalLevelDefault,
                                    hasAnyFilterAPattern |-> FALSE],
                                   Split(s, ","), isTraceLevels)
    IN  [filters |-> IF ~isTraceLevels \/ acc.globalLevel # noTraceOutput
                     THEN Append(acc.filters, filter(EmptyStr, acc.globalLevel))
                     ELSE acc.filters,
         hasAnyFilterAPattern |-> acc.hasAnyFilterAPattern]

\* fromString that keeps a global filter only when a token named one
fromStringNoDefault(s, isTraceLevels, globalLevelDefault) ==
    LET acc == fromStringLoop([filters |-> << >>,
                               globalLevel |-> noTraceOutput,
                               hasAnyFilterAPattern |-> FALSE],
                              Split(s, ","), isTraceLevels)
    IN  [filters |-> IF acc.globalLevel # noTraceOutput
                     THEN Append(acc.filters, filter(EmptyStr, acc.globalLevel))
                     ELSE acc.filters,
         hasAnyFilterAPattern |-> acc.hasAnyFilterAPattern]

\* fromString with the global filter put first in the chain
fromStringGlobalFirst(s, isTraceLevels, globalLevelDefault) ==
    LET acc == fromStringLoop([filters |-> << >>,
                               globalLevel |-> globalLevelDefault,
                               hasAnyFilterAPattern |-> FALSE],
                              Split(s, ","), isTraceLevels)
    IN  [filters |-> IF ~isTraceLevels \/ acc.globalLevel # noTraceOutput
                     THEN <<filter(EmptyStr, acc.globalLevel)>> \o acc.filters
                     ELSE acc.filters,
         hasAnyFilterAPattern |-> acc.hasAnyFilterAPattern]

\* fromString that stores the global filter on both axes, whatever it is
fromStringAlwaysGlobal(s, isTraceLevels, globalLevelDefault) ==
    LET acc == fromStringLoop([filters |-> << >>,
                               globalLevel |-> globalLevelDefault,
                               hasAnyFilterAPattern |-> FALSE],
                              Split(s, ","), isTraceLevels)
    IN  [filters |-> Append(acc.filters, filter(EmptyStr, acc.globalLevel)),
         hasAnyFilterAPattern |-> acc.hasAnyFilterAPattern]

\* filterSpec.fromString on a fresh filterSpec
fromString(s, isTraceLevels, globalLevelDefault) ==
    LET acc == fromStringLoop([filters |-> << >>,
                               globalLevel |-> globalLevelDefault,
                               hasAnyFilterAPattern |-> FALSE],
                              Split(s, ","), isTraceLevels)
    IN  [filters |-> IF ~isTraceLevels \/ acc.globalLevel # noTraceOutput
                     THEN Append(acc.filters, filter(EmptyStr, acc.globalLevel))
                     ELSE acc.filters,
         hasAnyFilterAPattern |-> acc.hasAnyFilterAPattern]

\* a filter that passes only the levels strictly below its threshold
matchStrict(f, filename, level) ==
    LET m == IF f.Pattern # EmptyStr THEN Match(f.Pattern, Base(filename)) ELSE TRUE
    IN  IF m THEN <<TRUE, level < f.Level>> ELSE <<FALSE, FALSE>>

\* filter.match: <<a file name match was made, the level is admitted>>
match(f, filename, level) ==
    LET m == IF f.Pattern # EmptyStr THEN Match(f.Pattern, Base(filename)) ELSE TRUE
    IN  IF m THEN <<TRUE, level <= f.Level>> ELSE <<FALSE, FALSE>>

\* a chain admits the call when any filter that matches the file admits it
matchfiltersAnyMatch(filters, filename, level) ==
    \E i \in 1..Len(filters) :
        match(filters[i], filename, level) = <<TRUE, TRUE>>

\* filterSpec.matchfilters
RECURSIVE matchfilters(_, _, _)
matchfilters(filters, filename, level) ==
    IF Len(filters) = 0 THEN FALSE
    ELSE LET r == match(Head(filters), filename, level)
         IN  IF r[1] THEN r[2]
             ELSE matchfilters(Tail(filters), filename, level)

(***************************************************************************)
(* The text formatter.                                                     *)
(***************************************************************************)
\* strconv.Itoa
RECURSIVE ItoaNat(_)
ItoaNat(n) ==
    LET d == <<"0","1","2","3","4","5","6","7","8","9">>[(n % 10) + 1]
    IN  IF n < 10 THEN <<d>> ELSE ItoaNat(n \div 10) \o <<d>>
Itoa(n) == IF n < 0 THEN <<"-">> \o ItoaNat(0 - n) ELSE ItoaNat(n)

\* Level.Bytes
levelBytes(level) ==
    CASE level = levelTrace -> sTRACE
      [] level = levelDebug -> sDEBUG
      [] level = levelInfo -> sINFO
      [] level = levelWarn -> sWARN
      [] level = levelErr -> sERROR
      [] level = levelCrit -> sCRITICAL
      [] level = levelNone -> sNONE

\* replace every character c of s by the string r[c], one pass, left to right
RECURSIVE ReplaceChars(_, _)
ReplaceChars(s, r) ==
    IF s = << >> THEN << >>
    ELSE (IF Head(s) \in DOMAIN r THEN r[Head(s)] ELSE <<Head(s)>>)
         \o ReplaceChars(Tail(s), r)

textFormatterDatePrefix == <<"d","a","t","e","=","\"">>
textFormatterLevelPrefix == <<"l","e","v","e","l","=">>
textFormatterMessagePrefix == <<"m","s","g","=","\"">>
textFormatterSeparator == " "
textFormatterQuoteWithSeparator == <<"\"", " ">>
textFormatterQuote == "\""
textFormatterQuoteEscaped == <<"\\", "\\", "\"">>
textFormatterLineEnding == "\n"

\* TextFormatter.Separator
Separator == <<" ">>

\* TextFormatter.Format: the bytes appended to the acquired output buffer
Format(entry) ==
    LET date == IF entry.Time # EmptyStr
                THEN textFormatterDatePrefix \o entry.Time
                     \o textFormatterQuoteWithSeparator
                ELSE << >>
        trace == IF entry.Level = levelTrace /\ entry.TraceLevel > notATrace
                 THEN <<"(">> \o Itoa(entry.TraceLevel) \o <<")">>
                 ELSE << >>
        flds == IF entry.FieldsCache # EmptyStr
                THEN <<textFormatterSeparator>> \o entry.FieldsCache
                ELSE << >>
        msg == IF entry.Message # EmptyStr
               THEN <<textFormatterSeparator>> \o textFormatterMessagePrefix
                    \o ReplaceChars(entry.Message,
                            [c \in {textFormatterQuote} |-> textFormatterQuoteEscaped])
               ELSE << >>
    IN  date \o textFormatterLevelPrefix \o levelBytes(entry.Level) \o trace
        \o flds \o msg \o <<textFormatterQuote, textFormatterLineEnding>>

\* a FormatField that escapes in two passes, quotes first
FormatFieldTwoPass(key, s) ==
    LET braced == s # << >> /\ Head(s) = "{" /\ s[Len(s)] = "}"
        containsAny == \E i \in 1..Len(s) : s[i] \in {"\"", " "}
        quotes == ReplaceChars(s, [c \in {"\""} |-> <<"\\", "\"">>])
    IN  IF ~braced /\ containsAny
        THEN key \o <<"=", "\"">>
             \o ReplaceChars(quotes, [c \in {"\\"} |-> <<"\\", "\\">>])
             \o <<"\"">>
        ELSE key \o <<"=">> \o s

\* TextFormatter.FormatField for a value already stringified by fmt.Sprint
FormatField(key, s) ==
    LET braced == s # << >> /\ Head(s) = "{" /\ s[Len(s)] = "}"
        containsAny == \E i \in 1..Len(s) : s[i] \in {"\"", " "}
    IN  IF ~braced /\ containsAny
        THEN key \o <<"=", "\"">>
             \o ReplaceChars(s, [c \in {"\"", "\\"} |->
                                    IF c = "\"" THEN <<"\\", "\"">>
                                    ELSE <<"\\", "\\">>])
             \o <<"\"">>
        ELSE key \o <<"=">> \o s

\* the field pairs of a flattened list, rendered, in list order
RECURSIVE FormatPairs(_)
FormatPairs(fields) ==
    IF Len(fields) < 2 THEN << >>
    ELSE <<FormatField(fields[1], fields[2])>>
         \o FormatPairs(SubSeq(fields, 3, Len(fields)))

\* the result of a call that panics (index out of range)
Panic == <<"!", "p", "a", "n", "i", "c">>

\* TextFormatter.FormatFields: fields[i+1] is read for every even i below
\* len(fields), which is out of range for a list of odd length
FormatFields(fields) ==
    IF Len(fields) % 2 = 1 THEN Panic
    ELSE Join(FormatPairs(fields), " ")

\* fmt.Sprint of string operands: no space is added between strings
RECURSIVE Sprint(_)
Sprint(a) == IF a = << >> THEN << >> ELSE Head(a) \o Sprint(Tail(a))

\* fmt.Sprintf for formats whose verbs are %s, each with its operand
RECURSIVE Sprintf(_, _)
Sprintf(format, a) ==
    IF format = << >> THEN << >>
    ELSE IF Len(format) >= 2 /\ format[1] = "%" /\ format[2] = "s" /\ a # << >>
    THEN Head(a) \o Sprintf(SubSeq(format, 3, Len(format)), Tail(a))
    ELSE <<Head(format)>> \o Sprintf(Tail(format), a)

(***************************************************************************)
(* The column formatter (defaultFormatter).  Colours are the identity:     *)
(* clr disables colour when the file is not a terminal.                    *)
(***************************************************************************)
Width == 60

\* n copies of the character c
RECURSIVE Repeat(_, _)
Repeat(c, n) == IF n <= 0 THEN << >> ELSE <<c>> \o Repeat(c, n - 1)

\* the verb %0wd of fmt.Sprintf, for n >= 0
ZeroPadded(n, w) == Repeat("0", w - Len(Itoa(n))) \o Itoa(n)

\* the verbs %-wd and %-ws of fmt.Sprintf
LeftJustified(s, w) == s \o Repeat(" ", w - Len(s))

\* defaultFormatter.formatField for a value already stringified by fmt.Sprint
formatField(key, s) ==
    LET braced == s # << >> /\ Head(s) = "{" /\ s[Len(s)] = "}"
        containsAny == \E i \in 1..Len(s) : s[i] \in {"\"", " "}
    IN  IF ~braced /\ containsAny
        THEN key \o <<"=", "\"">>
             \o ReplaceChars(s, [c \in {"\"", "\\"} |->
                                    IF c = "\"" THEN <<"\\", "\"">>
                                    ELSE <<"\\", "\\">>])
             \o <<"\"">>
        ELSE key \o <<"=">> \o s

\* defaultFormatter.formatFields: the slice joined has len(entry.Fields)
\* elements, of which the first half is filled
formatFields(entry) ==
    LET n == Len(entry.Fields)
        s == [i \in 1..n |->
                IF 2 * i <= n
                THEN formatField(entry.Fields[2 * i - 1], entry.Fields[2 * i])
                ELSE EmptyStr]
    IN  IF n % 2 = 1 THEN Panic ELSE Join(s, " ")

\* defaultFormatter.Format
defaultFormat(entry) ==
    LET time == IF entry.Time # EmptyStr THEN entry.Time \o Separator ELSE << >>
        hasFields == Len(entry.Fields) > 0
        level == SubSeq(levelBytes(entry.Level), 1, 4)
        trcLvl == IF entry.Level = levelTrace /\ entry.TraceLevel > notATrace
                  THEN entry.TraceLevel ELSE 0
        hasCallerInfo == entry.CallerInfo.PID > 0
        hasCallerInfoGID == entry.CallerInfo.GID > 0
        caller == IF hasCallerInfo
                  THEN <<" ", "[">> \o LeftJustified(Itoa(entry.CallerInfo.PID), 5)
                       \o <<" ">> \o entry.CallerInfo.FileName \o <<":">>
                       \o Itoa(entry.CallerInfo.Line) \o <<" ">>
                       \o entry.CallerInfo.FunctionName \o <<"]", " ">>
                  ELSE << >>
        gid == IF hasCallerInfoGID
               THEN <<"(">> \o ZeroPadded(entry.CallerInfo.GID, 5) \o <<")", " ">>
               ELSE << >>
        msg == IF entry.Message # EmptyStr
               THEN Separator
                    \o (IF hasFields \/ hasCallerInfo
                        THEN LeftJustified(entry.Message, Width)
                        ELSE entry.Message)
               ELSE << >>
        flds == IF hasFields THEN Separator \o formatFields(entry) ELSE << >>
    IN  time \o level \o <<"[">> \o ZeroPadded(trcLvl, 5) \o <<"]">>
        \o caller \o gid \o msg \o flds \o <<"\n">>

\* path.Split: the directory, with its trailing slash, and the file
PathSplit(p) ==
    LET slashes == {i \in 1..Len(p) : p[i] = "/"}
        cut == IF slashes = {} THEN 0 ELSE Max(slashes)
    IN  <<SubSeq(p, 1, cut), SubSeq(p, cut + 1, Len(p))>>

\* the last two elements of the caller's path (BasicLog, lines 525-531)
moduleAndFileName(fullFilePath) ==
    LET sp == PathSplit(fullFilePath)
        dirPath == sp[1]
        moduleName == IF dirPath # << >>
                      THEN PathSplit(SubSeq(dirPath, 1, Len(dirPath) - 1))[2]
                      ELSE << >>
    IN  moduleName \o <<"/">> \o sp[2]

(***************************************************************************)
(* State.                                                                  *)
(***************************************************************************)
VARIABLES
    fs,         \* a filterSpec under construction: its input and its chain
    mf,         \* the last matchfilters call on fs and its result
    fm,         \* the last formatter call: its arguments and both renderings
    l,          \* the root logger: the fields of struct logger
    fileOpen,   \* whether the log file handle opened by NewLogger is open
    subs,       \* the sub-loggers derived so far, in order of derivation
    gs,         \* per goroutine: position, arguments and locals of its call
    entries,    \* the Entry objects ever allocated
    entryPool,  \* the Entry objects lying in entryPool
    bufs,       \* the output buffers ever allocated
    outputPool, \* the output buffers lying in outputPool
    sinks,      \* the bytes each sink has received
    begun       \* per sink, the lines whose write has begun, in order

vars == <<fs, mf, fm, l, fileOpen, subs, gs, entries, entryPool, bufs, outputPool,
          sinks, begun>>
parseVars == <<fs, mf, fm>>
loggerVars == <<l, fileOpen, subs, gs, entries, entryPool, bufs, outputPool,
                sinks, begun>>

(***************************************************************************)
(* Inputs of the filter engine.                                            *)
(***************************************************************************)
sInfoLower == <<"i","n","f","o">>
sUnknown == <<"x">>
pAGo == <<"a",".","g","o">>
pBStar == <<"b","*">>
pQGo == <<"?",".","g","o">>
Eq(pattern, level) == pattern \o <<"=">> \o level

LogTokens ==
    {sNONE, sCRITICAL, sERROR, sWARN, sINFO, sDEBUG, sTRACE, sInfoLower,
     sUnknown, EmptyStr,
     Eq(pAGo, sWARN), Eq(pBStar, sDEBUG), Eq(pQGo, sNONE), Eq(EmptyStr, sERROR),
     Eq(pAGo, sUnknown), Eq(Eq(pAGo, sWARN), sUnknown)}

TraceTokens ==
    {<<"0">>, <<"2">>, <<"1","0">>, <<"-","1">>, <<"-","5">>, sUnknown, EmptyStr,
     Eq(pAGo, <<"1">>), Eq(pBStar, <<"3">>), Eq(EmptyStr, <<"2">>),
     Eq(pAGo, <<"-","1">>), Eq(Eq(pAGo, <<"1">>), <<"2">>)}

TokenSeqs(T) == UNION {[1..n -> T] : n \in 0..MaxTokens}
LogSpecStrings == {Join(ts, ",") : ts \in TokenSeqs(LogTokens)}
TraceSpecStrings == {Join(ts, ",") : ts \in TokenSeqs(TraceTokens)}

fAGo == <<"m","/","a",".","g","o">>
fB1Go == <<"m","/","b","1",".","g","o">>
fCGo == <<"m","/","c",".","g","o">>
FileNames == {fAGo, fB1Go, fCGo, EmptyStr}
MatchLevels == notATrace..Max({levelTrace, MaxTraceLevel})

FsNew == [state |-> "new", input |-> EmptyStr, isTraceLevels |-> FALSE,
          filters |-> << >>, hasAnyFilterAPattern |-> FALSE]
FmNone == [op |-> "none", key |-> EmptyStr, value |-> EmptyStr, fields |-> << >>,
           entry |-> Nil, text |-> EmptyStr, column |-> EmptyStr]
MfNone == [called |-> FALSE, filename |-> EmptyStr, level |-> 0, result |-> FALSE]

(***************************************************************************)
(* Objects and the initial state.                                          *)
(***************************************************************************)
\* "main" constructs the logger, derives sub-loggers and redirects the
\* output; the workers only log
Goroutines == {"main", "g1", "g2"}
Workers == {"g1", "g2"}
\* os.Stderr and os.Stdout write a line in one system call; "w1" is a
\* writer handed to SetOutput whose Write is not atomic
Streams == {"stderr", "stdout", "w1"}
AtomicStreams == {"stderr", "stdout"}
Sinks == Streams \cup {"logfile"}

EmptySpec == [filters |-> << >>, hasAnyFilterAPattern |-> FALSE]

\* struct logger before NewLogger has run
LNone ==
    [state |-> "none", mutex |-> Nil,
     logFilterSpec |-> EmptySpec, traceFilterSpec |-> EmptySpec,
     formatter |-> Nil,
     settingShowCallerInfo |-> FALSE, settingShowGoroutineID |-> FALSE,
     logWriterStream |-> Nil, logWriterFile |-> Nil,
     currentLogFile |-> Nil, currentLogFileName |-> "",
     logNoTime |-> FALSE,
     config |-> Nil]

\* struct EntryCallerInfo and struct Entry, zero values
NoCallerInfo == [PID |-> 0, GID |-> 0, FileName |-> EmptyStr, Line |-> 0,
                 FunctionName |-> ""]
ZeroEntry == [Time |-> EmptyStr, CallerInfo |-> NoCallerInfo, Level |-> levelNone,
              TraceLevel |-> 0, FieldsCache |-> EmptyStr, Message |-> EmptyStr]

\* what one call has done so far
NoObs == [acquired |-> FALSE, formatted |-> FALSE, stamped |-> FALSE,
          nFilter |-> 0, nFormat |-> 0, nHops |-> 0, nWrites |-> 0,
          allowed |-> "pending", line |-> EmptyStr,
          sawStream |-> FALSE, sawFile |-> FALSE, text |-> EmptyStr,
          nRelease |-> 0, nPut |-> 0]

\* a goroutine outside any call
GIdle ==
    [pc |-> "idle", calls |-> 0, logLevel |-> levelNone, traceLevel |-> notATrace,
     ai |-> EmptyStr, fields |-> << >>, format |-> EmptyStr, a |-> << >>,
     frames |-> << >>, via |-> 0, cur |-> 0, entry |-> 0, line |-> 0, w |-> Nil,
     writer |-> Nil, obs |-> NoObs]

Init ==
    /\ fs = FsNew
    /\ mf = MfNone
    /\ fm = FmNone
    /\ l = LNone
    /\ fileOpen = FALSE
    /\ subs = << >>
    /\ gs = [g \in Goroutines |-> GIdle]
    /\ entries = << >>
    /\ entryPool = {}
    /\ bufs = << >>
    /\ outputPool = {}
    /\ sinks = [w \in Sinks |-> << >>]
    /\ begun = [w \in Sinks |-> << >>]

(***************************************************************************)
(* The filter engine on its own: a chain is built from a string and then  *)
(* asked about calls.                                                      *)
(***************************************************************************)
\* a filterSpec is built from a specification string of either axis
FromStringCall(isTraceLevels) ==
    /\ fs.state = "new"
    /\ \E s \in IF isTraceLevels THEN TraceSpecStrings ELSE LogSpecStrings :
          LET spec == fromString(s, isTraceLevels,
                                 IF isTraceLevels THEN noTraceOutput ELSE levelInfo)
          IN  fs' = [state |-> "built", input |-> s,
                     isTraceLevels |-> isTraceLevels,
                     filters |-> spec.filters,
                     hasAnyFilterAPattern |-> spec.hasAnyFilterAPattern]
    /\ UNCHANGED <<mf, fm, loggerVars>>

\* the chain is asked, once, about a call from a file at a level
MatchFiltersCall(filename, level) ==
    /\ fs.state = "built"
    /\ ~mf.called
    /\ mf' = [called |-> TRUE, filename |-> filename, level |-> level,
              result |-> matchfilters(fs.filters, filename, level)]
    /\ UNCHANGED <<fs, fm, loggerVars>>

NextParse ==
    \/ \E isTraceLevels \in BOOLEAN : FromStringCall(isTraceLevels)
    \/ \E f \in FileNames, lv \in MatchLevels : MatchFiltersCall(f, lv)

SpecParse == Init /\ [][NextParse]_vars

(***************************************************************************)
(* The formatters, called on their own.                                    *)
(***************************************************************************)
\* the strings over an alphabet of at most n characters
RECURSIVE StringsUpTo(_, _)
StringsUpTo(alphabet, n) ==
    IF n = 0 THEN {EmptyStr}
    ELSE LET shorter == StringsUpTo(alphabet, n - 1)
         IN  shorter \cup {Append(s, c) : s \in shorter, c \in alphabet}

\* field values and messages: letters, the characters the quoting rule looks
\* at, and the characters it escapes
FmtAlphabet == {"a", " ", "\"", "\\", "{", "}"}
FmtValues == StringsUpTo(FmtAlphabet, MaxValueLen)
FmtKey == <<"k">>
FmtTime == <<"T">>
FmtCallerInfo ==
    [PID |-> 7, GID |-> 0, FileName |-> fAGo, Line |-> 10, FunctionName |-> <<"f">>]
FmtCallerInfos ==
    {NoCallerInfo, FmtCallerInfo, [FmtCallerInfo EXCEPT !.GID = 3]}
FmtFieldLists == {<< >>, <<FmtKey, <<"1">>>>, <<FmtKey, <<"1">>, <<"j">>, <<"a", " ">>>>}
FmtLevels == {<<levelInfo, notATrace>>, <<levelTrace, 1>>}

\* an Entry as BasicLog fills it before it calls the formatter
FmtEntry(time, lv, ci, fields, message) ==
    [Time |-> time, CallerInfo |-> ci, Level |-> lv[1], TraceLevel |-> lv[2],
     Fields |-> fields, FieldsCache |-> FormatFields(fields), Message |-> message]

\* FormatField of either formatter is called on a key and a value
FormatFieldCall ==
    /\ fm.op = "none"
    /\ \E value \in FmtValues :
          fm' = [FmNone EXCEPT !.op = "FormatField", !.key = FmtKey,
                               !.value = value,
                               !.text = FormatField(FmtKey, value),
                               !.column = formatField(FmtKey, value)]
    /\ UNCHANGED <<fs, mf, loggerVars>>

\* Format of either formatter is called on an entry
FormatCall ==
    /\ fm.op = "none"
    /\ \E time \in {EmptyStr, FmtTime}, lv \in FmtLevels, ci \in FmtCallerInfos,
          fields \in FmtFieldLists, message \in FmtValues :
          LET entry == FmtEntry(time, lv, ci, fields, message)
          IN  fm' = [FmNone EXCEPT !.op = "Format", !.entry = entry,
                                   !.text = Format(entry),
                                   !.column = defaultFormat(entry)]
    /\ UNCHANGED <<fs, mf, loggerVars>>

\* FormatFields of the text formatter and formatFields of the column
\* formatter are called on a flattened field list of whole pairs
FormatFieldsCall ==
    /\ fm.op = "none"
    /\ \E fields \in FmtFieldLists :
          fm' = [FmNone EXCEPT
                    !.op = "FormatFields", !.fields = fields,
                    !.text = FormatFields(fields),
                    !.column = formatFields(FmtEntry(EmptyStr, <<levelInfo, notATrace>>,
                                                     NoCallerInfo, fields, EmptyStr))]
    /\ UNCHANGED <<fs, mf, loggerVars>>

NextFmt == FormatFieldCall \/ FormatCall \/ FormatFieldsCall

SpecFmt == Init /\ [][NextFmt]_vars

(***************************************************************************)
(* The root logger.                                                        *)
(***************************************************************************)
\* log files that os.OpenFile cannot open for append
Unopenable == {"/ro/app.log"}
\* a formatter switch whose default arm accepts the selector
AnyFormatter == {"text", "", "json"}
KnownFormatters == {"text", ""}

Config(logLevel, traceLevel, logFile, logStream, logNoTime, showCallerInfo, showGoroutineID, formatter) ==
    [LogLevel |-> logLevel, TraceLevel |-> traceLevel, LogFile |-> logFile,
     LogStream |-> logStream, LogNoTime |-> logNoTime,
     ShowCallerInfo |-> showCallerInfo, ShowGoroutineID |-> showGoroutineID,
     Formatter |-> formatter]

\* NewLogger: the error, the logger and whether a log file was opened.  The
\* fresh struct has currentLogFileName "", so the file is opened whenever
\* one is configured and currentLogFile is never assigned.
NewLogger(config) ==
    LET newTraceFilterSpec == fromString(config.TraceLevel, TRUE, noTraceOutput)
        newLogFilterSpec == fromString(config.LogLevel, FALSE, levelInfo)
        wantsFile == LNone.currentLogFileName # config.LogFile
                     /\ config.LogFile # ""
        stream == IF config.LogStream = "STDOUT" THEN "stdout"
                  ELSE IF config.LogStream = "NONE" THEN Nil
                  ELSE "stderr"
    IN  IF config.Formatter \notin KnownFormatters
        THEN [err |-> "formatter is unknown", logger |-> LNone, opened |-> FALSE]
        ELSE IF wantsFile /\ config.LogFile \in Unopenable
        THEN [err |-> "unable to open log file", logger |-> LNone,
              opened |-> FALSE]
        ELSE [err |-> Nil,
              logger |-> [LNone EXCEPT
                  !.state = "ready",
                  !.formatter = "text",
                  !.traceFilterSpec = newTraceFilterSpec,
                  !.logFilterSpec = newLogFilterSpec,
                  !.settingShowCallerInfo = config.ShowCallerInfo,
                  !.settingShowGoroutineID = config.ShowGoroutineID,
                  !.logWriterStream = stream,
                  !.logWriterFile = IF wantsFile THEN "logfile" ELSE Nil,
                  !.logNoTime = config.LogNoTime],
              opened |-> wantsFile]

\* the stack of a call, innermost frame first
Frame(file, line, fn) == [file |-> file, line |-> line, fn |-> fn]
rlogGo == <<"/","r","l","o","g","/","r","l","o","g",".","g","o">>
loggerGo == <<"/","r","l","o","g","/","l","o","g","g","e","r",".","g","o">>
\* runtime.Caller(skip) seen from the innermost frame
Caller(frames, skip) ==
    IF skip + 1 <= Len(frames)
    THEN [ok |-> TRUE, frame |-> frames[skip + 1]]
    ELSE [ok |-> FALSE, frame |-> Frame(EmptyStr, 0, "")]

\* time.Now().UTC().Format(...), os.Getpid() and getGID() of a goroutine
TimeNow == <<"T">>
Getpid == 7
getGID(g) == CASE g = "main" -> 1 [] g = "g1" -> 2 [] g = "g2" -> 3

\* a BasicLog that never asks the filters
BasicLogBranchNone(lg) == "none"

\* which enablement branch BasicLog takes (lines 514 and 558)
BasicLogBranch(lg) ==
    IF \/ lg.settingShowCallerInfo
       \/ lg.settingShowGoroutineID
       \/ (lg.logFilterSpec.hasAnyFilterAPattern
             /\ Len(lg.logFilterSpec.filters) > 0)
       \/ (lg.traceFilterSpec.hasAnyFilterAPattern
             /\ Len(lg.traceFilterSpec.filters) > 0)
    THEN "caller"
    ELSE IF Len(lg.logFilterSpec.filters) > 0
            \/ Len(lg.traceFilterSpec.filters) > 0
    THEN "plain"
    ELSE "none"

\* the decision taken on the log axis whatever the call is
BasicLogAllowLogAxis(lg, filename, logLevel, traceLevel) ==
    matchfilters(lg.logFilterSpec.filters, filename, logLevel)

\* a decision that admits a call when either axis admits it
BasicLogAllowEither(lg, filename, logLevel, traceLevel) ==
    \/ matchfilters(lg.logFilterSpec.filters, filename, logLevel)
    \/ matchfilters(lg.traceFilterSpec.filters, filename, traceLevel)

\* allowLog of BasicLog (lines 535-544 and 560-569)
BasicLogAllow(lg, filename, logLevel, traceLevel) ==
    IF traceLevel = notATrace
    THEN matchfilters(lg.logFilterSpec.filters, filename, logLevel)
    ELSE matchfilters(lg.traceFilterSpec.filters, filename, traceLevel)

\* a Reset that leaves the Entry as the call filled it
ResetNothing(entry) == entry

\* Entry.Reset
Reset(entry) == [entry EXCEPT !.FieldsCache = EmptyStr, !.Message = EmptyStr]

Call(g, logLevel, traceLevel, ai, fields, format, a, frames, via, cur, hops) ==
    [GIdle EXCEPT !.calls = gs[g].calls,
                  !.pc = IF cur = 0 THEN "bl_enter" ELSE "sl_BasicLog",
                  !.logLevel = logLevel, !.traceLevel = traceLevel,
                  !.ai = ai, !.fields = fields, !.format = format, !.a = a,
                  !.frames = frames, !.via = via, !.cur = cur,
                  !.obs = [NoObs EXCEPT
                             !.nHops = hops,
                             !.text = IF format # EmptyStr
                                      THEN Sprintf(format, a) ELSE Sprint(a)]]

Returned(g, allowed) ==
    [gs[g] EXCEPT !.pc = "idle", !.calls = @ + 1, !.entry = 0, !.line = 0,
                  !.w = Nil, !.obs.allowed = allowed]

\* NewLogger(config), for a configuration of the given set
NewLoggerCall(configs) ==
    /\ l.state = "none"
    /\ \E config \in configs :
          LET r == NewLogger(config)
          IN  /\ l' = IF r.err = Nil THEN [r.logger EXCEPT !.config = config]
                      ELSE [LNone EXCEPT !.state = "error", !.config = config]
              /\ fileOpen' = r.opened
    /\ UNCHANGED <<parseVars, subs, gs, entries, entryPool, bufs, outputPool,
                   sinks, begun>>

\* NewLogger(config) once more: the program goes on with the Logger it
\* returns.  The Loggers of a process share entryPool and outputPool
NewLoggerAgain(configs) ==
    /\ l.state = "ready"
    /\ \A g \in Goroutines : gs[g].pc = "idle"
    /\ \E config \in configs \ {l.config} :
          LET r == NewLogger(config)
          IN  /\ r.err = Nil
              /\ l' = [r.logger EXCEPT !.config = config]
              /\ fileOpen' = r.opened
    /\ UNCHANGED <<parseVars, subs, gs, entries, entryPool, bufs, outputPool,
                   sinks, begun>>

\* a level method of the root logger other than Trace and Tracef
LevelCall(g, logLevel, format, a, site) ==
    /\ l.state = "ready"
    /\ gs[g].pc = "idle"
    /\ gs[g].calls < MaxCalls
    /\ gs' = [gs EXCEPT ![g] =
            Call(g, logLevel, notATrace, EmptyStr, << >>, format, a,
                 <<Frame(rlogGo, 600, "rlog.(*logger).level"), site>>, 0, 0, 0)]
    /\ UNCHANGED <<parseVars, l, fileOpen, subs, entries, entryPool, bufs,
                   outputPool, sinks, begun>>

\* logger.Trace and logger.Tracef: BasicLog is entered only when the trace
\* chain is not empty
TraceCall(g, traceLevel, format, a, site) ==
    /\ l.state = "ready"
    /\ gs[g].pc = "idle"
    /\ gs[g].calls < MaxCalls
    /\ gs' = [gs EXCEPT ![g] =
            IF Len(l.traceFilterSpec.filters) > 0
            THEN Call(g, levelTrace, traceLevel, EmptyStr, << >>, format, a,
                      <<Frame(rlogGo, 624, "rlog.(*logger).Trace"), site>>,
                      0, 0, 0)
            ELSE [GIdle EXCEPT !.calls = gs[g].calls + 1,
                               !.logLevel = levelTrace,
                               !.traceLevel = traceLevel,
                               !.obs.allowed = "no"]]
    /\ UNCHANGED <<parseVars, l, fileOpen, subs, entries, entryPool, bufs,
                   outputPool, sinks, begun>>

\* BasicLog, lines 493-512: an Entry is taken from the pool (a pooled one if
\* there is one, a new one otherwise), the deferred release is registered,
\* the Entry is filled in, the message formatted and the time taken
BLEnter(g) ==
    /\ gs[g].pc = "bl_enter"
    /\ \E e \in IF entryPool # {} THEN entryPool ELSE {Len(entries) + 1} :
          LET old == IF e \in entryPool THEN entries[e] ELSE ZeroEntry
              filled == [old EXCEPT
                  !.TraceLevel = gs[g].traceLevel,
                  !.Level = gs[g].logLevel,
                  !.FieldsCache = gs[g].ai,
                  !.Message = IF gs[g].format # EmptyStr
                              THEN Sprintf(gs[g].format, gs[g].a)
                              ELSE Sprint(gs[g].a),
                  !.Time = IF l.logNoTime THEN EmptyStr ELSE TimeNow]
          IN  /\ entries' = IF e \in entryPool
                            THEN [entries EXCEPT ![e] = filled]
                            ELSE Append(entries, filled)
              /\ entryPool' = entryPool \ {e}
              /\ gs' = [gs EXCEPT
                    ![g].pc = "bl_filter",
                    ![g].entry = e,
                    ![g].frames = <<Frame(rlogGo, 492, "rlog.(*logger).BasicLog")>>
                                  \o @,
                    ![g].obs.acquired = TRUE,
                    ![g].obs.formatted = TRUE,
                    ![g].obs.stamped = ~l.logNoTime]
    /\ UNCHANGED <<parseVars, l, fileOpen, subs, bufs, outputPool, sinks, begun>>

\* BasicLog, lines 514-573: the enablement decision
BLFilter(g) ==
    /\ gs[g].pc = "bl_filter"
    /\ LET branch == BasicLogBranch(l)
           c == Caller(gs[g].frames, 2)
           name == IF branch = "caller" /\ c.ok
                   THEN moduleAndFileName(c.frame.file) ELSE EmptyStr
           allowLog == branch = "none"
                       \/ BasicLogAllow(l, name, gs[g].logLevel, gs[g].traceLevel)
           e == gs[g].entry
       IN  /\ gs' = [gs EXCEPT
                 ![g].pc = IF allowLog THEN "bl_format" ELSE "bl_defer",
                 ![g].obs.allowed = IF allowLog THEN "yes" ELSE "no",
                 ![g].obs.nFilter = IF branch = "none" THEN @ ELSE @ + 1]
           /\ entries' =
                 IF allowLog /\ branch = "caller" /\ l.settingShowCallerInfo
                 THEN [entries EXCEPT ![e].CallerInfo =
                         [PID |-> Getpid,
                          GID |-> IF l.settingShowGoroutineID THEN getGID(g)
                                  ELSE entries[e].CallerInfo.GID,
                          FileName |-> name,
                          Line |-> c.frame.line,
                          FunctionName |-> c.frame.fn]]
                 ELSE entries
    /\ UNCHANGED <<parseVars, l, fileOpen, subs, entryPool, bufs, outputPool,
                   sinks, begun>>

\* BasicLog, line 583: the formatter renders the Entry into a buffer taken
\* from outputPool
BLFormat(g) ==
    /\ gs[g].pc = "bl_format"
    /\ \E b \in IF outputPool # {} THEN outputPool ELSE {Len(bufs) + 1} :
          LET rendered == Format(entries[gs[g].entry])
          IN  /\ bufs' = IF b \in outputPool THEN [bufs EXCEPT ![b] = rendered]
                         ELSE Append(bufs, rendered)
              /\ outputPool' = outputPool \ {b}
              /\ gs' = [gs EXCEPT ![g].pc = "bl_stream",
                                  ![g].line = b,
                                  ![g].obs.nFormat = @ + 1,
                                  ![g].obs.line = rendered]
    /\ UNCHANGED <<parseVars, l, fileOpen, subs, entries, entryPool, sinks, begun>>

\* BasicLog, line 584: is there a stream sink; the field is read without
\* the mutex
BLCheckStream(g) ==
    /\ gs[g].pc = "bl_stream"
    /\ gs' = [gs EXCEPT ![g].pc = IF l.logWriterStream # Nil THEN "bl_lock"
                                  ELSE "bl_file",
                        ![g].w = l.logWriterStream,
                        ![g].obs.sawStream = l.logWriterStream # Nil]
    /\ UNCHANGED <<parseVars, l, fileOpen, subs, entries, entryPool, bufs,
                   outputPool, sinks, begun>>

\* BasicLog, line 586: l.mutex.Lock()
BLLock(g) ==
    /\ gs[g].pc = "bl_lock"
    /\ l.mutex = Nil
    /\ l' = [l EXCEPT !.mutex = g]
    /\ gs' = [gs EXCEPT ![g].pc = "bl_unlock"]
    /\ UNCHANGED <<parseVars, fileOpen, subs, entries, entryPool, bufs,
                   outputPool, sinks, begun>>

\* BasicLog, line 587: l.mutex.Unlock(), not deferred
BLUnlock(g) ==
    /\ gs[g].pc = "bl_unlock"
    /\ l' = [l EXCEPT !.mutex = Nil]
    /\ gs' = [gs EXCEPT ![g].pc = "bl_write"]
    /\ UNCHANGED <<parseVars, fileOpen, subs, entries, entryPool, bufs,
                   outputPool, sinks, begun>>

\* the bytes of a line a writer that is not atomic takes in first
FirstChunk(line) == SubSeq(line, 1, Len(line) \div 2)
RestChunk(line) == SubSeq(line, Len(line) \div 2 + 1, Len(line))

\* BasicLog, line 588: l.logWriterStream.Write(line) begins; an os.File
\* takes the line in one step.  The field is read outside the mutex, so the
\* writer is the one seen at line 584 or the one the field holds now
BLWrite(g) ==
    /\ gs[g].pc = "bl_write"
    /\ \E w \in {gs[g].w, l.logWriterStream} :
       LET line == bufs[gs[g].line]
       IN  /\ begun' = [begun EXCEPT ![w] = Append(@, gs[g].obs.line)]
           /\ IF w \in AtomicStreams
              THEN /\ sinks' = [sinks EXCEPT ![w] = @ \o line]
                   /\ gs' = [gs EXCEPT ![g].pc = "bl_file", ![g].writer = w,
                                       ![g].obs.nWrites = @ + 1]
              ELSE /\ sinks' = [sinks EXCEPT ![w] = @ \o FirstChunk(line)]
                   /\ gs' = [gs EXCEPT ![g].pc = "bl_write2",
                                       ![g].writer = w]
    /\ UNCHANGED <<parseVars, l, fileOpen, subs, entries, entryPool, bufs,
                   outputPool>>

\* the Write of a writer that is not atomic ends
BLWrite2(g) ==
    /\ gs[g].pc = "bl_write2"
    /\ sinks' = [sinks EXCEPT ![gs[g].writer] = @ \o RestChunk(bufs[gs[g].line])]
    /\ gs' = [gs EXCEPT ![g].pc = "bl_file", ![g].obs.nWrites = @ + 1]
    /\ UNCHANGED <<parseVars, l, fileOpen, subs, entries, entryPool, bufs,
                   outputPool, begun>>

\* BasicLog, line 591: is there a file sink
BLCheckFile(g) ==
    /\ gs[g].pc = "bl_file"
    /\ gs' = [gs EXCEPT ![g].pc = IF l.logWriterFile # Nil THEN "bl_print"
                                  ELSE "bl_release",
                        ![g].obs.sawFile = l.logWriterFile # Nil]
    /\ UNCHANGED <<parseVars, l, fileOpen, subs, entries, entryPool, bufs,
                   outputPool, sinks, begun>>

\* BasicLog, line 592: l.logWriterFile.Print, which writes the line under
\* the mutex of the log.Logger.  The field is read outside the mutex, so
\* the receiver is the one seen at line 591 or the one the field holds now,
\* and a nil *log.Logger makes Print panic
BLPrint(g) ==
    /\ gs[g].pc = "bl_print"
    /\ \E f \in {"logfile", l.logWriterFile} :
       IF f # Nil
       THEN /\ sinks' = [sinks EXCEPT !["logfile"] = @ \o bufs[gs[g].line]]
            /\ begun' = [begun EXCEPT !["logfile"] = Append(@, gs[g].obs.line)]
            /\ gs' = [gs EXCEPT ![g].pc = "bl_release",
                                ![g].obs.nWrites = @ + 1]
       ELSE /\ gs' = [gs EXCEPT ![g].pc = "bl_defer",
                                ![g].obs.allowed = "panic"]
            /\ UNCHANGED <<sinks, begun>>
    /\ UNCHANGED <<parseVars, l, fileOpen, subs, entries, entryPool, bufs,
                   outputPool>>

\* BasicLog, line 594: ReleaseOutput(line)
BLRelease(g) ==
    /\ gs[g].pc = "bl_release"
    /\ outputPool' = outputPool \cup {gs[g].line}
    /\ gs' = [gs EXCEPT ![g].pc = "bl_defer", ![g].obs.nRelease = @ + 1]
    /\ UNCHANGED <<parseVars, l, fileOpen, subs, entries, entryPool, bufs,
                   sinks, begun>>

\* BasicLog, lines 494-497: the deferred Reset and Put, then the return
BLDefer(g) ==
    /\ gs[g].pc = "bl_defer"
    /\ entries' = [entries EXCEPT ![gs[g].entry] = Reset(@)]
    /\ entryPool' = entryPool \cup {gs[g].entry}
    /\ gs' = [gs EXCEPT ![g] =
            [(IF gs[g].obs.allowed = "panic"
              THEN [gs[g] EXCEPT !.pc = "panicked", !.entry = 0]
              ELSE Returned(g, gs[g].obs.allowed))
             EXCEPT !.obs.nPut = @ + 1]]
    /\ UNCHANGED <<parseVars, l, fileOpen, subs, bufs, outputPool, sinks, begun>>

\* the steps of BasicLog
BasicLogStep(g) ==
    \/ BLEnter(g) \/ BLFilter(g) \/ BLFormat(g) \/ BLCheckStream(g)
    \/ BLLock(g) \/ BLUnlock(g) \/ BLWrite(g) \/ BLWrite2(g)
    \/ BLCheckFile(g) \/ BLPrint(g) \/ BLRelease(g) \/ BLDefer(g)

\* SetOutput, line 321
SOStream(g, writer) ==
    /\ l.state = "ready"
    /\ gs[g].pc = "idle"
    /\ l' = [l EXCEPT !.logWriterStream = writer]
    /\ gs' = [gs EXCEPT ![g].pc = "so_file"]
    /\ UNCHANGED <<parseVars, fileOpen, subs, entries, entryPool, bufs,
                   outputPool, sinks, begun>>

\* SetOutput, line 323
SOFile(g) ==
    /\ gs[g].pc = "so_file"
    /\ l' = [l EXCEPT !.logWriterFile = Nil]
    /\ gs' = [gs EXCEPT ![g].pc = "so_close"]
    /\ UNCHANGED <<parseVars, fileOpen, subs, entries, entryPool, bufs,
                   outputPool, sinks, begun>>

\* SetOutput, lines 324-327
SOClose(g) ==
    /\ gs[g].pc = "so_close"
    /\ IF l.currentLogFile # Nil
       THEN /\ fileOpen' = FALSE
            /\ l' = [l EXCEPT !.currentLogFileName = ""]
       ELSE UNCHANGED <<fileOpen, l>>
    /\ gs' = [gs EXCEPT ![g].pc = "idle"]
    /\ UNCHANGED <<parseVars, subs, entries, entryPool, bufs, outputPool,
                   sinks, begun>>

(***************************************************************************)
(* The contextual sub-logger.  A sub-logger is named by its index in subs; *)
(* logger 0 is the root logger.                                            *)
(***************************************************************************)
\* additionalFields is a slice: spare is what its backing array holds beyond
\* its length, and arr tells that the array is the caller's
newSubLogger(parent, fields) ==
    [logger |-> parent, prefix |-> EmptyStr,
     additionalInformation |-> FormatFields(fields),
     additionalFields |-> fields, spare |-> << >>, arr |-> FALSE]

\* the sub-loggers that may exist: MaxSubs and those made of a caller's slice
SubLimit == MaxSubs + Cardinality({i \in 1..Len(subs) : subs[i].arr})

\* WithField of the root logger or of a sub-logger
WithField(g, parent, name, value) ==
    /\ l.state = "ready"
    /\ gs[g].pc = "idle"
    /\ Len(subs) < SubLimit
    /\ subs' = Append(subs, newSubLogger(parent, <<name, value>>))
    /\ UNCHANGED <<parseVars, l, fileOpen, gs, entries, entryPool, bufs,
                   outputPool, sinks, begun>>

\* subLogger.WithPrefix
WithPrefix(g, parent, prefix) ==
    /\ l.state = "ready"
    /\ gs[g].pc = "idle"
    /\ Len(subs) < SubLimit
    /\ parent # 0
    /\ subs' = Append(subs, [newSubLogger(parent, << >>) EXCEPT !.prefix = prefix])
    /\ UNCHANGED <<parseVars, l, fileOpen, gs, entries, entryPool, bufs,
                   outputPool, sinks, begun>>

\* subLogger.WithFieldsArr(slice...), where slice has the given fields and
\* the given spare capacity: the slice is passed on as it is, and
\* newSubLogger renders it, which panics for a list of odd length
WithFieldsArr(g, parent, fields, spare) ==
    /\ l.state = "ready"
    /\ gs[g].pc = "idle"
    /\ parent # 0
    /\ Cardinality({i \in 1..Len(subs) : subs[i].arr}) < MaxArrs
    /\ IF FormatFields(fields) = Panic
       THEN /\ gs' = [gs EXCEPT ![g].pc = "panicked"]
            /\ UNCHANGED subs
       ELSE /\ subs' = Append(subs, [newSubLogger(parent, fields) EXCEPT
                                        !.spare = spare, !.arr = TRUE])
            /\ UNCHANGED gs
    /\ UNCHANGED <<parseVars, l, fileOpen, entries, entryPool, bufs,
                   outputPool, sinks, begun>>

\* what a level method of a sub-logger hands to its parent: internalLog
internalLog(sub, format, a) ==
    [ai |-> sub.additionalInformation, fields |-> sub.additionalFields,
     format |-> format, a |-> a]

\* a level method of sub-logger k: the method calls internalLog, which calls
\* BasicLog of the parent
SubCall(g, k, logLevel, traceLevel, format, a, site) ==
    /\ l.state = "ready"
    /\ gs[g].pc = "idle"
    /\ gs[g].calls < MaxCalls
    /\ k \in 1..Len(subs)
    /\ LET args == internalLog(subs[k], format, a)
       IN  gs' = [gs EXCEPT ![g] =
                Call(g, logLevel, traceLevel, args.ai, args.fields,
                     args.format, args.a,
                     <<Frame(loggerGo, 100, "rlog.(*subLogger).internalLog"),
                       Frame(loggerGo, 145, "rlog.(*subLogger).level"), site>>,
                     k, subs[k].logger, 1)]
    /\ UNCHANGED <<parseVars, l, fileOpen, subs, entries, entryPool, bufs,
                   outputPool, sinks, begun>>

\* the fragment of the incoming call put before the fragment of the
\* sub-logger
subBasicLogIncomingFirst(sub, additionalInformation, fields, format, a) ==
    [ai |-> IF Len(sub.additionalInformation) > 0
               /\ Len(additionalInformation) > 0
            THEN additionalInformation \o Separator \o sub.additionalInformation
            ELSE additionalInformation,
     fields |-> sub.additionalFields \o fields,
     format |-> IF sub.prefix # EmptyStr /\ format # EmptyStr
                THEN sub.prefix \o format ELSE format,
     a |-> IF sub.prefix # EmptyStr /\ format = EmptyStr
           THEN <<sub.prefix>> \o a ELSE a]

\* what subLogger.BasicLog hands to its parent (lines 84-97)
subBasicLog(sub, additionalInformation, fields, format, a) ==
    [ai |-> IF Len(sub.additionalInformation) > 0
               /\ Len(additionalInformation) > 0
            THEN sub.additionalInformation \o Separator \o additionalInformation
            ELSE additionalInformation,
     fields |-> sub.additionalFields \o fields,
     format |-> IF sub.prefix # EmptyStr /\ format # EmptyStr
                THEN sub.prefix \o format ELSE format,
     a |-> IF sub.prefix # EmptyStr /\ format = EmptyStr
           THEN <<sub.prefix>> \o a ELSE a]

\* append(logger.additionalFields, fields...), line 97: what the backing array
\* holds beyond the length of additionalFields afterwards.  The elements are
\* written in place when they fit the capacity; otherwise a new array is made
appendInPlace(spare, fields) ==
    IF Len(fields) <= Len(spare)
    THEN fields \o SubSeq(spare, Len(fields) + 1, Len(spare))
    ELSE spare

\* subLogger.BasicLog of the sub-logger the call has reached
SubBasicLog(g) ==
    /\ gs[g].pc = "sl_BasicLog"
    /\ LET sub == subs[gs[g].cur]
           args == subBasicLog(sub, gs[g].ai, gs[g].fields, gs[g].format, gs[g].a)
       IN  gs' = [gs EXCEPT
                ![g].pc = IF sub.logger = 0 THEN "bl_enter" ELSE "sl_BasicLog",
                ![g].cur = sub.logger,
                ![g].ai = args.ai, ![g].fields = args.fields,
                ![g].format = args.format, ![g].a = args.a,
                ![g].frames = <<Frame(loggerGo, 83, "rlog.(*subLogger).BasicLog")>>
                              \o @,
                ![g].obs.nHops = @ + 1]
    /\ subs' = [subs EXCEPT ![gs[g].cur].spare =
                    appendInPlace(@, gs[g].fields)]
    /\ UNCHANGED <<parseVars, l, fileOpen, entries, entryPool, bufs,
                   outputPool, sinks, begun>>

(***************************************************************************)
(* Inputs of the logger and the specifications.                            *)
(***************************************************************************)
sM == <<"m">>
sPctS == <<"%","s">>
SiteA == Frame(<<"/">> \o fAGo, 10, "m.run")
SiteB == Frame(<<"/">> \o fB1Go, 20, "m.work")
CallLevels == {levelCrit, levelErr, levelWarn, levelInfo, levelDebug}
TraceLevels == notATrace..MaxTraceLevel

\* the configurations of the loggers that are asked about levels
LevelSpecs ==
    {EmptyStr, sNONE, sCRITICAL, sERROR, sWARN, sINFO, sDEBUG, sInfoLower,
     Join(<<Eq(pAGo, sWARN), sINFO>>, ",")}
TraceSpecs ==
    {EmptyStr, Join(<<Eq(pAGo, <<"1">>), <<"0">>>>, ",")}
    \cup {ItoaNat(t) : t \in 0..MaxTraceLevel}
ConfigsLog ==
    {Config(ll, tl, "", "", TRUE, show[1], show[2], "") :
        ll \in LevelSpecs, tl \in TraceSpecs,
        show \in {<<FALSE, FALSE>>, <<TRUE, FALSE>>, <<TRUE, TRUE>>}}
    \cup {Config(sDEBUG, <<"1">>, f, s, nt, FALSE, FALSE, "") :
            f \in {"", "app.log", "/ro/app.log"}, s \in {"", "STDOUT", "NONE"},
            nt \in BOOLEAN}
    \cup {Config(sDEBUG, <<"1">>, f, "", FALSE, FALSE, FALSE, sel) :
            f \in {"", "app.log", "/ro/app.log"}, sel \in {"text", "json"}}

\* a logger is configured and used by one goroutine
NextLog ==
    \/ NewLoggerCall(ConfigsLog)
    \/ \E lv \in CallLevels, site \in {SiteA, SiteB} :
            LevelCall("main", lv, EmptyStr, <<sM>>, site)
    \/ \E n \in TraceLevels, site \in {SiteA, SiteB} :
            TraceCall("main", n, EmptyStr, <<sM>>, site)
    \/ BasicLogStep("main")
    \/ SOStream("main", "w1") \/ SOFile("main") \/ SOClose("main")

SpecLog == Init /\ [][NextLog]_vars

\* the configurations of the logger that goroutines share
ConfigsShared ==
    {Config(sINFO, <<"1">>, "app.log", "", TRUE, FALSE, FALSE, "")}

\* the workers log through the root logger while main redirects its output
Next ==
    \/ NewLoggerCall(ConfigsShared)
    \/ \E g \in Workers, lv \in {levelInfo, levelDebug} :
            LevelCall(g, lv, EmptyStr, <<sM>>, SiteA)
    \/ \E g \in Workers : BasicLogStep(g)
    \/ SOStream("main", "w1")
    \/ SOFile("main") \/ SOClose("main")

Spec == Init /\ [][Next]_vars

\* the configurations of the logger that sub-loggers are derived from
ConfigsSub ==
    {Config(ll, <<"1">>, f, "", TRUE, FALSE, FALSE, "") :
        ll \in {EmptyStr, sWARN}, f \in {"", "app.log"}}
\* the fields given to WithField, name and value
FieldPairs == {<<<<"a">>, <<"1">>>>, <<<<"b">>, <<"x", " ", "y">>>>}
Prefixes == {<<"p", ":">>}

\* sub-loggers are derived and used by one goroutine
NextSub ==
    \/ NewLoggerCall(ConfigsSub)
    \/ SOStream("main", "w1") \/ SOFile("main") \/ SOClose("main")
    \/ \E parent \in 0..Len(subs), nv \in FieldPairs :
            WithField("main", parent, nv[1], nv[2])
    \/ \E parent \in 0..Len(subs), prefix \in Prefixes :
            WithPrefix("main", parent, prefix)
    \/ \E k \in 1..Len(subs), lv \in {levelWarn, levelInfo} :
            SubCall("main", k, lv, notATrace, EmptyStr, <<sM>>, SiteA)
    \/ \E k \in 1..Len(subs), n \in {1, MaxTraceLevel} :
            SubCall("main", k, levelTrace, n, sPctS, <<sM>>, SiteA)
    \/ LevelCall("main", levelInfo, EmptyStr, <<sM>>, SiteA)
    \/ SubBasicLog("main")
    \/ BasicLogStep("main")

SpecSub == Init /\ [][NextSub]_vars

\* the slices given to WithFieldsArr: fields and spare capacity (elements
\* beyond the length are nil, written as the empty string)
ArrSlices ==
    {<<<<<<"c">>, <<"3">>>>, << >>>>,
     <<<<<<"c">>, <<"3">>>>, <<EmptyStr, EmptyStr>>>>,
     <<<< >>, <<EmptyStr, EmptyStr>>>>,
     <<<<<<"c">>>>, << >>>>,
     <<<<<<"c">>, <<"3">>, <<"d">>>>, <<EmptyStr>>>>}
ConfigsArr ==
    {Config(ll, <<"1">>, "app.log", "", TRUE, FALSE, FALSE, "") :
        ll \in {EmptyStr, Join(<<Eq(pAGo, sDEBUG), sWARN>>, ",")}}

\* sub-loggers are derived, some of them from slices, and used by one goroutine
NextArr ==
    \/ NewLoggerCall(ConfigsArr)
    \/ SOStream("main", "w1") \/ SOFile("main") \/ SOClose("main")
    \/ \E parent \in 0..Len(subs), nv \in FieldPairs :
            WithField("main", parent, nv[1], nv[2])
    \/ \E parent \in 1..Len(subs), s \in ArrSlices :
            WithFieldsArr("main", parent, s[1], s[2])
    \/ \E k \in 1..Len(subs), lv \in {levelInfo, levelDebug} :
            SubCall("main", k, lv, notATrace, EmptyStr, <<sM>>, SiteA)
    \/ SubBasicLog("main")
    \/ BasicLogStep("main")

SpecArr == Init /\ [][NextArr]_vars

\* a Logger that shows caller info and goroutine id, and one that does not
ConfigsPool ==
    {Config(EmptyStr, <<"1">>, "app.log", "", TRUE, show, show, "") :
        show \in BOOLEAN}

\* the workers log through the Logger in use; main makes a Logger, may make
\* another one between calls, and redirects the output
NextPool ==
    \/ NewLoggerCall(ConfigsPool)
    \/ NewLoggerAgain(ConfigsPool)
    \/ \E g \in Workers : LevelCall(g, levelInfo, EmptyStr, <<sM>>, SiteA)
    \/ \E g \in Workers : BasicLogStep(g)
    \/ SOStream("main", "w1") \/ SOFile("main") \/ SOClose("main")

SpecPool == Init /\ [][NextPool]_vars

(***************************************************************************)
(* Properties of the root logger used by one goroutine.                    *)
(***************************************************************************)
BasicLogPcs ==
    {"sl_BasicLog", "bl_enter", "bl_filter", "bl_format", "bl_stream", "bl_lock",
     "bl_unlock", "bl_write", "bl_write2", "bl_file", "bl_print", "bl_release",
     "bl_defer"}
\* the last call of g has returned
Finished(g) ==
    /\ gs[g].calls >= 1
    /\ gs[g].pc \notin BasicLogPcs \cup {"panicked"}
    /\ gs[g].obs.allowed \in {"yes", "no"}
EndsWith(s, x) == Len(x) <= Len(s) /\ SubSeq(s, Len(s) - Len(x) + 1, Len(s)) = x
\* the last call of g rendered one line and handed it to every sink the
\* logger had
Emitted(g) ==
    /\ gs[g].obs.allowed = "yes"
    /\ gs[g].obs.nFormat = 1
    /\ gs[g].obs.line # EmptyStr
    /\ gs[g].obs.sawStream =>
          gs[g].writer # Nil /\ EndsWith(sinks[gs[g].writer], gs[g].obs.line)
    /\ gs[g].obs.sawFile => EndsWith(sinks["logfile"], gs[g].obs.line)
    /\ gs[g].obs.nWrites = (IF gs[g].obs.sawStream THEN 1 ELSE 0)
                           + (IF gs[g].obs.sawFile THEN 1 ELSE 0)
\* the last call of g rendered nothing and wrote nothing
Suppressed(g) ==
    /\ gs[g].obs.allowed = "no"
    /\ gs[g].obs.nFormat = 0
    /\ gs[g].obs.nWrites = 0
    /\ gs[g].writer = Nil
GlobalLevelNames == {sNONE, sCRITICAL, sERROR, sWARN, sINFO, sDEBUG}
\* the log chain of the logger is the one of the single global level named
LogSpecIs(name) == l.logFilterSpec = fromString(name, FALSE, levelInfo)
\* the last call of "main" was a level method other than Trace on the root
LevelCallDone ==
    /\ Finished("main")
    /\ gs["main"].via = 0
    /\ gs["main"].traceLevel = notATrace
    /\ gs["main"].logLevel \in CallLevels

\* C1: with a log-level spec that is one global level L and no patterned
\* filter, a call of a level method at level X is emitted if X <= L in the
\* order NONE < CRITICAL < ERROR < WARN < INFO < DEBUG and is suppressed
\* otherwise; NONE suppresses every call and the empty spec acts as INFO.
C1_GlobalLevelOrder ==
    LevelCallDone =>
      /\ \A name \in GlobalLevelNames :
            LogSpecIs(name) =>
              IF gs["main"].logLevel <= levelNumbers(name)
              THEN Emitted("main") ELSE Suppressed("main")
      /\ LogSpecIs(sNONE) => Suppressed("main")
      /\ LogSpecIs(EmptyStr) =>
            IF gs["main"].logLevel <= levelInfo
            THEN Emitted("main") ELSE Suppressed("main")

\* a WARN call under the global level INFO has been written to the stream
C1_Witness ==
    /\ LevelCallDone
    /\ LogSpecIs(sINFO)
    /\ gs["main"].logLevel = levelWarn
    /\ Emitted("main")
    /\ gs["main"].obs.nWrites >= 1

\* the trace chain of the logger is the one of the single global threshold
TraceSpecIs(s) == l.traceFilterSpec = fromString(s, TRUE, noTraceOutput)
\* the last call of "main" was Trace or Tracef on the root
TraceCallDone ==
    /\ Finished("main")
    /\ gs["main"].via = 0
    /\ gs["main"].logLevel = levelTrace

\* C2: with a trace spec that is one global threshold T >= 0, a Trace call
\* of sub-level N >= 0 is emitted if N <= T and suppressed otherwise; with
\* an empty trace spec the trace chain is empty and every Trace call is
\* suppressed, whatever N is.
C2_TraceThreshold ==
    TraceCallDone =>
      /\ \A T \in 0..MaxTraceLevel :
            TraceSpecIs(ItoaNat(T)) /\ gs["main"].traceLevel >= 0 =>
              IF gs["main"].traceLevel <= T
              THEN Emitted("main") ELSE Suppressed("main")
      /\ TraceSpecIs(EmptyStr) =>
            Len(l.traceFilterSpec.filters) = 0 /\ Suppressed("main")

\* a Trace call of sub-level 1 under the threshold 1 has been written
C2_Witness ==
    /\ TraceCallDone
    /\ TraceSpecIs(ItoaNat(1))
    /\ gs["main"].traceLevel = 1
    /\ Emitted("main")
    /\ gs["main"].obs.nWrites >= 1

\* C16: NewLogger returns an error and no Logger exactly when the formatter
\* selector is not a recognised name or the configured log file cannot be
\* opened; in every other case it returns a usable Logger (formatter chosen,
\* both filter chains built from the configuration, sinks as configured) and a
\* nil error.
C16_NewLoggerErrors ==
    l.state # "none" =>
        LET c == l.config
            bad == \/ c.Formatter # "" /\ c.Formatter # "text"
                   \/ c.LogFile # "" /\ c.LogFile \in Unopenable
        IN  /\ (l.state = "error") <=> bad
            /\ l.state = "error" =>
                   /\ [l EXCEPT !.state = "none", !.config = Nil] = LNone
                   /\ ~fileOpen
                   /\ \A g \in DOMAIN gs : gs[g].calls = 0 /\ gs[g].pc = "idle"
            /\ l.state # "error" =>
                   /\ l.state = "ready"
                   /\ l.formatter = "text"
                   /\ Len(l.logFilterSpec.filters) >= 1
                   /\ gs["main"].calls = 0 /\ gs["main"].pc = "idle" =>
                          /\ l.logFilterSpec = fromString(c.LogLevel, FALSE, levelInfo)
                          /\ l.traceFilterSpec =
                                fromString(c.TraceLevel, TRUE, noTraceOutput)
                   /\ fileOpen <=> c.LogFile # ""

C16_Witness ==
    /\ l.state = "error"
    /\ l.config.Formatter = "json"
    /\ l.config.LogFile = "app.log"

\* C17: when the Logger was constructed with a log file, SetOutput(w) closes
\* that file: once SetOutput has returned, the file NewLogger opened is closed,
\* the Logger has no file sink, and the stream sink is w.
C17_SetOutputClosesFile ==
    (/\ l.state = "ready"
     /\ l.config.LogFile # ""
     /\ gs["main"].pc = "idle"
     /\ l.logWriterStream = "w1") =>
        /\ l.logWriterFile = Nil
        /\ ~fileOpen

\* the level token of the last call of g: the level name, TRACE(N) for Trace
LevelToken(g) ==
    IF gs[g].logLevel = levelTrace
    THEN sTRACE \o <<"(">> \o Itoa(gs[g].traceLevel) \o <<")">>
    ELSE levelBytes(gs[g].logLevel)

\* C21: with time logging disabled and no fields, an emitted call at level L
\* with message m writes exactly level="L" msg="m" and a newline, and an
\* emitted Trace(N, m) writes level="TRACE(N)" msg="m" and a newline.
C21_ExactLine ==
    (/\ Finished("main")
     /\ gs["main"].via = 0
     /\ gs["main"].obs.allowed = "yes"
     /\ l.logNoTime) =>
        gs["main"].obs.line =
            <<"l","e","v","e","l","=","\"">> \o LevelToken("main")
            \o <<"\"", " ", "m", "s", "g", "=", "\"">> \o gs["main"].obs.text
            \o <<"\"", "\n">>

\* the file of the application code that made the last call of g, as BasicLog
\* names it: the last two elements of its path
CallSiteFile(g) == moduleAndFileName(gs[g].frames[Len(gs[g].frames)].file)

\* C23: the two axes do not interfere.  Whether a call of a level method other
\* than Trace is emitted is a function of the log-level chain, the file of the
\* call site and the level; whether a Trace call of sub-level N >= 0 is
\* emitted is a function of the trace chain, the file of the call site and N.
\* Neither depends on the chain of the other axis or on the display settings.
C23_AxesIndependent ==
    Finished("main") /\ gs["main"].via = 0 =>
        /\ (gs["main"].traceLevel = notATrace /\ gs["main"].logLevel \in CallLevels) =>
              ((gs["main"].obs.allowed = "yes") <=>
                  matchfilters(l.logFilterSpec.filters, CallSiteFile("main"),
                               gs["main"].logLevel))
        /\ gs["main"].traceLevel >= 0 =>
              ((gs["main"].obs.allowed = "yes") <=>
                  matchfilters(l.traceFilterSpec.filters, CallSiteFile("main"),
                               gs["main"].traceLevel))

\* a Trace call was emitted by a logger whose log level is NONE, and the
\* trace chain has a patterned filter
C23_Witness ==
    /\ TraceCallDone
    /\ l.config.LogLevel = sNONE
    /\ l.traceFilterSpec.hasAnyFilterAPattern
    /\ gs["main"].traceLevel = 1
    /\ Emitted("main")

\* C8: a call that the filter suppresses writes nothing and does nothing
\* but the enablement check: no Entry is taken from the pool, the message
\* is not formatted, no time stamp is made and the formatter is not run.
C8_SuppressedDoesNothing ==
    \A g \in Goroutines :
        Finished(g) /\ gs[g].obs.allowed = "no" =>
            /\ ~gs[g].obs.acquired
            /\ ~gs[g].obs.formatted
            /\ ~gs[g].obs.stamped
            /\ gs[g].obs.nFormat = 0
            /\ gs[g].obs.nWrites = 0

(***************************************************************************)
(* Properties of the root logger shared by goroutines.                     *)
(***************************************************************************)
\* C5: a log call writes its line to a sink only while it holds the mutex
\* of the logger, so no two goroutines are inside a write to the same sink
\* at the same time.
C5_WritesUnderMutex ==
    /\ \A g \in Goroutines : gs[g].pc = "bl_write2" => l.mutex = g
    /\ \A g, h \in Goroutines :
          g # h /\ gs[g].pc = "bl_write2" /\ gs[h].pc = "bl_write2"
            => gs[g].writer # gs[h].writer

RECURSIVE Concat(_)
Concat(ss) == IF ss = << >> THEN << >> ELSE Head(ss) \o Concat(Tail(ss))
Orders(n) == {p \in [1..n -> 1..n] : \A i, j \in 1..n : p[i] = p[j] => i = j}
\* no SetOutput is under way, every worker has made all its calls, all of
\* them admitted, and all of them began their write on the writer w
AllWrittenTo(w) ==
    /\ gs["main"].pc = "idle"
    /\ \A g \in Workers :
          Finished(g) /\ gs[g].calls = MaxCalls /\ gs[g].obs.allowed = "yes"
    /\ Len(begun[w]) = Cardinality(Workers) * MaxCalls

\* C6: when every one of N goroutines has made its M enabled calls on the
\* logger, all to one sink whose Write is not atomic, the sink holds
\* exactly the N*M rendered lines, whole, one after another in some order.
C6_WholeLines ==
    AllWrittenTo("w1") =>
        \E p \in Orders(Len(begun["w1"])) :
            sinks["w1"] = Concat([i \in 1..Len(begun["w1"]) |-> begun["w1"][p[i]]])

\* C7: SetOutput changes the sink fields only while it holds the mutex of
\* the logger; while it is swapping them no log call reads a sink field or
\* is inside a write, and no log call fails on a sink that was swapped.
C7_SetOutputUnderMutex ==
    /\ \A g \in Goroutines :
          gs[g].pc \in {"so_file", "so_close"} =>
            /\ l.mutex = g
            /\ \A h \in Goroutines \ {g} :
                  gs[h].pc \notin {"bl_stream", "bl_write", "bl_write2", "bl_file",
                                   "bl_print"}
    /\ \A g \in Goroutines : gs[g].pc # "panicked"

\* the call of g has ended, by a return or by a panic
Ended(g) ==
    gs[g].obs.allowed # "pending" /\ gs[g].pc \notin BasicLogPcs
\* the call of g holds a rendered line it has not yet handed to all sinks
Writing(g) ==
    gs[g].pc \in {"bl_stream", "bl_lock", "bl_unlock", "bl_write", "bl_write2",
                  "bl_file", "bl_print"}

\* C12: a buffer a log call took from the output pool goes back to the
\* pool once, after the line was written to every sink the logger has:
\* it is not in the pool while the call still writes, no two calls hold
\* the same buffer, a call that has ended released the buffer it took
\* exactly once, and a suppressed call took none.
C12_BufferReleasedOnce ==
    /\ \A g \in Goroutines :
          /\ gs[g].obs.nRelease <= gs[g].obs.nFormat
          /\ gs[g].obs.nFormat <= 1
          /\ Writing(g) => gs[g].line \notin outputPool /\ gs[g].obs.nRelease = 0
          /\ Ended(g) => gs[g].obs.nRelease = gs[g].obs.nFormat
          /\ Ended(g) /\ gs[g].obs.allowed = "no" => gs[g].obs.nFormat = 0
    /\ \A g, h \in Goroutines :
          g # h /\ Writing(g) /\ Writing(h) => gs[g].line # gs[h].line

\* the call of g holds an Entry taken from the entry pool
HoldsEntry(g) ==
    gs[g].pc \in BasicLogPcs \ {"sl_BasicLog", "bl_enter"}

RECURSIVE ChainOf(_)
ChainOf(k) == IF k = 0 THEN << >> ELSE ChainOf(subs[k].logger) \o <<subs[k]>>
\* every sub-logger of the chain was derived by WithField
WithFieldChain(chain) ==
    \A i \in 1..Len(chain) :
        chain[i].prefix = EmptyStr /\ Len(chain[i].additionalFields) = 2
\* the fields of a WithField chain, each rendered once, in derivation order
RECURSIVE FieldsInOrder(_)
FieldsInOrder(chain) ==
    IF chain = << >> THEN EmptyStr
    ELSE LET f == FormatField(chain[1].additionalFields[1],
                              chain[1].additionalFields[2])
         IN  IF Len(chain) = 1 THEN f
             ELSE f \o Separator \o FieldsInOrder(Tail(chain))
\* the line of the last call of g, were its fields the given fragment
LineWithFields(g, fragment) ==
    Format([ZeroEntry EXCEPT
              !.Time = IF l.logNoTime THEN EmptyStr ELSE TimeNow,
              !.Level = gs[g].logLevel,
              !.TraceLevel = gs[g].traceLevel,
              !.FieldsCache = fragment,
              !.Message = IF gs[g].format # EmptyStr
                          THEN Sprintf(gs[g].format, gs[g].a)
                          ELSE Sprint(gs[g].a)])
\* the last call of "main" went through a sub-logger
SubCallDone == Finished("main") /\ gs["main"].via >= 1

\* C9: a call on the last sub-logger of a chain of WithField derivations,
\* of any depth, renders every field of the chain once, the ancestors'
\* fields first, in derivation order, with the separator of the formatter
\* between them; a call on the root itself renders none of them.
C9_FieldsInDerivationOrder ==
    /\ SubCallDone /\ gs["main"].obs.allowed = "yes"
         /\ WithFieldChain(ChainOf(gs["main"].via)) =>
          /\ Emitted("main")
          /\ gs["main"].obs.line =
                LineWithFields("main", FieldsInOrder(ChainOf(gs["main"].via)))
    /\ Finished("main") /\ gs["main"].via = 0 /\ gs["main"].obs.allowed = "yes" =>
          /\ Emitted("main")
          /\ gs["main"].obs.line = LineWithFields("main", EmptyStr)

\* a call through two WithField derivations of different names was written
C9_Witness ==
    /\ SubCallDone
    /\ Emitted("main")
    /\ gs["main"].obs.nWrites >= 1
    /\ LET chain == ChainOf(gs["main"].via)
       IN  /\ Len(chain) = 2
           /\ WithFieldChain(chain)
           /\ chain[1].additionalFields[1] # chain[2].additionalFields[1]

\* C10: one call of a level method through a chain of sub-loggers has its
\* filter evaluated once, by BasicLog of the root, and its line rendered
\* once when the call is admitted (and not at all when it is not); the
\* sub-loggers on the way evaluate no filter, render nothing and write
\* nothing, and each of them forwards the call once.
C10_OnceAtRoot ==
    /\ gs["main"].pc = "sl_BasicLog" =>
          /\ gs["main"].obs.nFilter = 0
          /\ gs["main"].obs.nFormat = 0
          /\ gs["main"].obs.nWrites = 0
          /\ gs["main"].obs.nHops <= Len(ChainOf(gs["main"].via))
    /\ SubCallDone =>
          /\ gs["main"].obs.nFilter = 1
          /\ gs["main"].obs.nFormat =
                (IF gs["main"].obs.allowed = "yes" THEN 1 ELSE 0)
          /\ gs["main"].obs.nHops = Len(ChainOf(gs["main"].via))
          /\ gs["main"].obs.allowed = "yes" => Emitted("main")
          /\ gs["main"].obs.allowed = "no" => Suppressed("main")

\* an admitted call through a chain of two sub-loggers has returned
C10_Witness ==
    /\ SubCallDone
    /\ Len(ChainOf(gs["main"].via)) = 2
    /\ gs["main"].obs.allowed = "yes"
    /\ gs["main"].obs.nFilter = 1
    /\ gs["main"].obs.nHops = 2

\* C22: sub-loggers are immutable: deriving a sub-logger and logging through
\* one leave every sub-logger that exists as it is: its parent, prefix, cached
\* fragment and field list, and the backing array of the slice it was made of.
C22_SubLoggersImmutable ==
    [][\A i \in 1..Len(subs) : Len(subs') >= i /\ subs'[i] = subs[i]]_vars

\* C27: an Entry taken from the pool carries nothing of an earlier call into
\* the next one: when the formatter is about to read the Entry of a call on a
\* Logger whose caller info and goroutine id display are off, the Entry holds
\* no caller info (PID, goroutine id, file, line, function), and its level,
\* trace level, fields and message are those of the call.
C27_NoStaleEntry ==
    \A g \in Goroutines :
        gs[g].pc = "bl_format" /\ ~l.settingShowCallerInfo
            /\ ~l.settingShowGoroutineID =>
                LET entry == entries[gs[g].entry]
                IN  /\ entry.CallerInfo = NoCallerInfo
                    /\ entry.Level = gs[g].logLevel
                    /\ entry.TraceLevel = gs[g].traceLevel
                    /\ entry.FieldsCache = gs[g].ai
                    /\ entry.Message = gs[g].obs.text

\* C28: the filter decision does not depend on the sub-logger chain: a call
\* made through a chain of sub-loggers is emitted exactly when the chain of
\* its axis admits the file of the application code that called the level
\* method, at the level of the call, as for a call on the root.
C28_ChainIndependent ==
    SubCallDone =>
        ((gs["main"].obs.allowed = "yes") <=>
            IF gs["main"].traceLevel = notATrace
            THEN matchfilters(l.logFilterSpec.filters, CallSiteFile("main"),
                              gs["main"].logLevel)
            ELSE matchfilters(l.traceFilterSpec.filters, CallSiteFile("main"),
                              gs["main"].traceLevel))

\* the cached fragments of the sub-loggers of a chain that are not empty
FragmentsOf(chain) ==
    SelectSeq([i \in 1..Len(chain) |-> chain[i].additionalInformation],
              LAMBDA s : s # EmptyStr)

\* C29: the fragment handed to the root for a call through a sub-logger holds
\* the cached fragment of every sub-logger of the chain, ancestors first, also
\* when a sub-logger of the chain contributes an empty fragment, and it
\* renders the fields of the raw field list forwarded with it.
C29_FragmentKept ==
    SubCallDone =>
        /\ gs["main"].ai = Join(FragmentsOf(ChainOf(gs["main"].via)), " ")
        /\ gs["main"].ai = FormatFields(gs["main"].fields)

\* C30: a flattened field list with an odd number of elements never makes
\* the library panic: no goroutine panics, whether in deriving a sub-logger
\* from such a list or in a call through it, and the fragment of every
\* sub-logger renders the complete pairs of its list.
C30_OddListNoPanic ==
    /\ \A g \in Goroutines : gs[g].pc # "panicked"
    /\ \A i \in 1..Len(subs) :
          LET fields == subs[i].additionalFields
              pairs == [k \in 1..(Len(fields) \div 2) |->
                          FormatField(fields[2 * k - 1], fields[2 * k])]
          IN  subs[i].additionalInformation = Join(pairs, " ")

\* the prefixes of the sub-loggers of a chain, the one set first first
RECURSIVE PrefixesOf(_)
PrefixesOf(chain) ==
    IF chain = << >> THEN EmptyStr
    ELSE chain[1].prefix \o PrefixesOf(Tail(chain))
\* the message BasicLog of the root made of the arguments it was handed
MessageOf(g) ==
    IF gs[g].format # EmptyStr THEN Sprintf(gs[g].format, gs[g].a)
    ELSE Sprint(gs[g].a)

\* C11: the message of a call made through a sub-logger is the prefixes of
\* the sub-loggers on its chain, in the order they were set, followed by
\* the text of the call, for the methods with and without a format, for a
\* call on the sub-logger WithPrefix returned and for a call on a
\* sub-logger derived from it; the prefix is in the message of the line,
\* not among its fields.
C11_PrefixPrepended ==
    SubCallDone /\ gs["main"].obs.allowed = "yes" =>
        /\ MessageOf("main")
              = PrefixesOf(ChainOf(gs["main"].via)) \o gs["main"].obs.text
        /\ gs["main"].obs.line = LineWithFields("main", gs["main"].ai)

(***************************************************************************)
(* Properties of the filter engine.                                        *)
(***************************************************************************)
\* the filters of a chain that apply to a file: no pattern, or a pattern
\* that matches the base name
Applies(f, filename) ==
    f.Pattern = EmptyStr \/ Match(f.Pattern, Base(filename))
ApplyingFilters(filters, filename) ==
    {i \in 1..Len(filters) : Applies(filters[i], filename)}

\* C3: matchfilters returns level <= threshold of the first filter, in chain
\* order, whose pattern is empty or matches the base name of the file,
\* whatever later filters say, and FALSE when no filter applies.
C3_FirstMatchWins ==
    mf.called =>
        LET idx == ApplyingFilters(fs.filters, mf.filename)
        IN  mf.result = IF idx = {} THEN FALSE
                        ELSE mf.level <= fs.filters[Min(idx)].Level

\* An INFO call from a.go against [(a.go, WARN), ("", INFO)] is suppressed
\* although the later global filter would admit it.
C3_Witness ==
    /\ mf.called
    /\ fs.filters = <<filter(pAGo, levelWarn), filter(EmptyStr, levelInfo)>>
    /\ mf.filename = fAGo /\ mf.level = levelInfo
    /\ mf.result = FALSE

\* the tokens of a specification string, read off the string: whether the
\* token is valid on its axis, its pattern part and its level
TokenOf(tok, isTraceLevels) ==
    LET parts == Split(tok, "=")
        pat == IF Len(parts) = 2 THEN parts[1] ELSE EmptyStr
        lvl == IF Len(parts) = 2 THEN parts[2] ELSE parts[Len(parts)]
        up == ToUpper(lvl)
    IN  [valid |-> /\ Len(parts) <= 2
                   /\ IF isTraceLevels THEN Atoi(lvl).ok
                      ELSE up \in LevelNames \ {sTRACE},
         pattern |-> pat,
         level |-> IF isTraceLevels THEN Atoi(lvl).val
                   ELSE IF up \in LevelNames THEN levelNumbers(up) ELSE 0]
TokensOf(s, isTraceLevels) ==
    LET ts == Split(s, ",")
    IN  [i \in 1..Len(ts) |-> TokenOf(ts[i], isTraceLevels)]
\* the k-th smallest element of a set of numbers
RECURSIVE Kth(_, _)
Kth(S, k) == IF k = 1 THEN Min(S) ELSE Kth(S \ {Min(S)}, k - 1)

\* C4: the chain holds at most one pattern-less filter; it is the last
\* element; its threshold is that of the last valid global token of the
\* string; the patterned filters stand before it in the order of the string.
C4_GlobalFilterLast ==
    fs.state = "built" =>
        LET toks == TokensOf(fs.input, fs.isTraceLevels)
            globals == {i \in 1..Len(toks) :
                            toks[i].valid /\ toks[i].pattern = EmptyStr}
            patterned == {i \in 1..Len(toks) :
                            toks[i].valid /\ toks[i].pattern # EmptyStr}
            patternless == {j \in 1..Len(fs.filters) :
                            fs.filters[j].Pattern = EmptyStr}
            nPat == Len(fs.filters) - Cardinality(patternless)
        IN  /\ Cardinality(patternless) <= 1
            /\ \A j \in patternless : j = Len(fs.filters)
            /\ \A j \in patternless :
                    globals # {} => fs.filters[j].Level = toks[Max(globals)].level
            /\ nPat = Cardinality(patterned)
            /\ \A k \in 1..Cardinality(patterned) :
                    fs.filters[k] = filter(toks[Kth(patterned, k)].pattern,
                                           toks[Kth(patterned, k)].level)

\* A string whose global token stands before a patterned token and is
\* overridden by a later global token: "INFO,a.go=WARN,ERROR"-like chains.
C4_Witness ==
    /\ fs.state = "built"
    /\ Len(fs.filters) >= 2
    /\ fs.filters[Len(fs.filters)].Pattern = EmptyStr
    /\ LET toks == TokensOf(fs.input, fs.isTraceLevels)
       IN  /\ Len(toks) >= 2
           /\ toks[1].valid /\ toks[1].pattern = EmptyStr
           /\ toks[2].valid /\ toks[2].pattern # EmptyStr

\* a token is malformed when it has more than one "=", or its level part
\* names no level or names TRACE (level axis), or is not a number (trace
\* axis)
Malformed(tok, isTraceLevels) ==
    LET eqs == {i \in 1..Len(tok) : tok[i] = "="}
        lvl == IF eqs = {} THEN tok ELSE SubSeq(tok, Max(eqs) + 1, Len(tok))
        body == IF lvl # << >> /\ lvl[1] \in {"-", "+"} THEN Tail(lvl) ELSE lvl
    IN  \/ Cardinality(eqs) > 1
        \/ IF isTraceLevels
           THEN body = << >> \/ \E i \in 1..Len(body) : body[i] \notin Digits
           ELSE ToUpper(lvl) \notin {sNONE, sCRITICAL, sERROR, sWARN, sINFO, sDEBUG}
\* the string with its malformed tokens removed
WithoutMalformed(s, isTraceLevels) ==
    Join(SelectSeq(Split(s, ","), LAMBDA tok : ~Malformed(tok, isTraceLevels)), ",")

\* C14: the chain fromString builds from a string is the chain it builds
\* from the string with its malformed tokens removed: a malformed token is
\* skipped and the valid tokens before and after it all take effect.
C14_MalformedSkipped ==
    fs.state = "built" =>
        LET clean == fromString(WithoutMalformed(fs.input, fs.isTraceLevels),
                                fs.isTraceLevels,
                                IF fs.isTraceLevels THEN noTraceOutput ELSE levelInfo)
        IN  /\ fs.filters = clean.filters
            /\ fs.hasAnyFilterAPattern = clean.hasAnyFilterAPattern

\* a string whose first token is malformed and whose second token is a
\* valid patterned token that took effect
C14_Witness ==
    /\ fs.state = "built"
    /\ LET ts == Split(fs.input, ",")
       IN  /\ Len(ts) = 2
           /\ Malformed(ts[1], fs.isTraceLevels)
           /\ ~Malformed(ts[2], fs.isTraceLevels)
           /\ IndexByte(ts[2], "=") > 1
    /\ Len(fs.filters) >= 1
    /\ fs.filters[1].Pattern # EmptyStr

\* C15: on the level axis the chain is never empty and its last filter has
\* no pattern; the threshold of that filter is INFO when the string is
\* empty or holds no valid global token.
C15_LevelChainHasGlobal ==
    fs.state = "built" /\ ~fs.isTraceLevels =>
        LET toks == TokensOf(fs.input, FALSE)
            globals == {i \in 1..Len(toks) :
                            toks[i].valid /\ toks[i].pattern = EmptyStr}
            last == fs.filters[Len(fs.filters)]
        IN  /\ Len(fs.filters) >= 1
            /\ last.Pattern = EmptyStr
            /\ (fs.input = EmptyStr \/ globals = {}) => last.Level = levelInfo

\* a string of the level axis with a patterned token and no global token
C15_Witness ==
    /\ fs.state = "built" /\ ~fs.isTraceLevels
    /\ fs.input # EmptyStr
    /\ Len(fs.filters) = 2
    /\ fs.filters[1].Pattern # EmptyStr
    /\ fs.filters[2] = filter(EmptyStr, levelInfo)
    /\ \A i \in 1..Len(TokensOf(fs.input, FALSE)) :
          ~(TokensOf(fs.input, FALSE)[i].valid
            /\ TokensOf(fs.input, FALSE)[i].pattern = EmptyStr)

\* C24: on the trace axis the chain never holds a pattern-less filter whose
\* threshold is the disabled sentinel -1: when the global threshold is -1, by
\* default or because the last valid global token says so, the chain is
\* exactly the patterned filters of the string, in order, and is empty when
\* the string has none.
C24_NoSentinelFilter ==
    fs.state = "built" /\ fs.isTraceLevels =>
        LET toks == TokensOf(fs.input, TRUE)
            globals == {i \in 1..Len(toks) :
                            toks[i].valid /\ toks[i].pattern = EmptyStr}
            patterned == {i \in 1..Len(toks) :
                            toks[i].valid /\ toks[i].pattern # EmptyStr}
            globalLevel == IF globals = {} THEN noTraceOutput
                           ELSE toks[Max(globals)].level
        IN  /\ \A i \in 1..Len(fs.filters) :
                  fs.filters[i].Pattern = EmptyStr =>
                      fs.filters[i].Level # noTraceOutput
            /\ globalLevel = noTraceOutput =>
                  /\ Len(fs.filters) = Cardinality(patterned)
                  /\ \A k \in 1..Len(fs.filters) :
                        /\ fs.filters[k].Pattern = toks[Kth(patterned, k)].pattern
                        /\ fs.filters[k].Level = toks[Kth(patterned, k)].level
                  /\ patterned = {} => fs.filters = << >>

\* a trace string with a patterned token and the explicit global token -1
\* gave a chain of the patterned filter alone
C24_Witness ==
    /\ fs.state = "built"
    /\ fs.isTraceLevels
    /\ fs.input = Join(<<Eq(pAGo, <<"1">>), <<"-", "1">>>>, ",")
    /\ Len(fs.filters) = 1
    /\ fs.filters[1].Pattern = pAGo

\* the level of a trace token is not a non-negative integer or the sentinel
BelowSentinel(tok) ==
    LET t == TokenOf(tok, TRUE) IN t.valid /\ t.level < noTraceOutput

\* C25: on the trace axis every threshold in the chain is a non-negative
\* integer or the sentinel -1; a token whose level is an integer below -1 is
\* skipped like a non-numeric one, so the chain is the one built from the
\* string without such tokens.
C25_TraceThresholdsValid ==
    fs.state = "built" /\ fs.isTraceLevels =>
        /\ \A i \in 1..Len(fs.filters) :
              fs.filters[i].Level >= 0 \/ fs.filters[i].Level = noTraceOutput
        /\ fs.filters =
              fromString(Join(SelectSeq(Split(fs.input, ","),
                                        LAMBDA tok : ~BelowSentinel(tok)), ","),
                         TRUE, noTraceOutput).filters

(***************************************************************************)
(* Properties of the formatters.                                           *)
(***************************************************************************)
\* every backslash doubled and every quote preceded by a backslash, reading
\* the value once from left to right
RECURSIVE EscapedOnce(_)
EscapedOnce(s) ==
    IF s = << >> THEN << >>
    ELSE (CASE Head(s) = "\\" -> <<"\\", "\\">>
            [] Head(s) = "\"" -> <<"\\", "\"">>
            [] OTHER -> <<Head(s)>>) \o EscapedOnce(Tail(s))

Wrapped(s) == Len(s) >= 2 /\ s[1] = "{" /\ s[Len(s)] = "}"
Has(s, c) == \E i \in 1..Len(s) : s[i] = c

InValuePosition(s) ==
    LET field == FormatField(FmtKey, s)
    IN  SubSeq(field, Len(FmtKey) + 3, Len(field) - 1)

\* C19: both formatters escape a double quote of the message as FormatField
\* escapes it in a value: for a message holding a quote (and no backslash, and
\* not wrapped in braces) the text line ends with msg="..." holding the form
\* FormatField gives the same text, and the column line holds that form where
\* the message goes.
C19_MessageEscapedAsValue ==
    (/\ fm.op = "Format"
     /\ Has(fm.entry.Message, "\"")
     /\ ~Has(fm.entry.Message, "\\")
     /\ ~Wrapped(fm.entry.Message)) =>
        LET escaped == InValuePosition(fm.entry.Message)
            padded == IF fm.entry.Fields # << >> \/ fm.entry.CallerInfo.PID > 0
                      THEN LeftJustified(escaped, Width) ELSE escaped
        IN  /\ EndsWith(fm.text, <<" ">> \o textFormatterMessagePrefix \o escaped
                                  \o <<"\"", "\n">>)
            /\ fm.entry.Fields = << >> =>
                    EndsWith(fm.column, <<" ">> \o padded \o <<"\n">>)

\* the segments that are present, in order
Present(segments) == SelectSeq(segments, LAMBDA s : s # EmptyStr)

\* the segments of the text line of an entry
TextSegments(entry) ==
    <<IF entry.Time = EmptyStr THEN EmptyStr
      ELSE textFormatterDatePrefix \o entry.Time \o <<"\"">>,
      textFormatterLevelPrefix \o levelBytes(entry.Level)
          \o (IF entry.Level = levelTrace /\ entry.TraceLevel > notATrace
              THEN <<"(">> \o Itoa(entry.TraceLevel) \o <<")">> ELSE << >>),
      entry.FieldsCache,
      IF entry.Message = EmptyStr THEN EmptyStr
      ELSE textFormatterMessagePrefix \o entry.Message \o <<"\"">> >>

\* the segments of the column line of an entry
ColumnSegments(entry) ==
    <<entry.Time,
      SubSeq(levelBytes(entry.Level), 1, 4) \o <<"[">>
          \o ZeroPadded(IF entry.Level = levelTrace /\ entry.TraceLevel > notATrace
                        THEN entry.TraceLevel ELSE 0, 5) \o <<"]">>,
      IF entry.CallerInfo.PID > 0
      THEN <<"[">> \o LeftJustified(Itoa(entry.CallerInfo.PID), 5) \o <<" ">>
           \o entry.CallerInfo.FileName \o <<":">> \o Itoa(entry.CallerInfo.Line)
           \o <<" ">> \o entry.CallerInfo.FunctionName \o <<"]">>
      ELSE EmptyStr,
      IF entry.CallerInfo.GID > 0
      THEN <<"(">> \o ZeroPadded(entry.CallerInfo.GID, 5) \o <<")">>
      ELSE EmptyStr,
      entry.Message,
      entry.FieldsCache>>

\* C20: the rendered line is its present segments with exactly one separator
\* between each two neighbours, nothing for an absent segment, and exactly one
\* newline directly after the last present segment (messages without a quote,
\* whose rendering is the message itself).
C20_OneSeparator ==
    fm.op = "Format" /\ ~Has(fm.entry.Message, "\"") =>
        /\ fm.text = Join(Present(TextSegments(fm.entry)), " ") \o <<"\n">>
        /\ fm.column = Join(Present(ColumnSegments(fm.entry)), " ") \o <<"\n">>

\* C26: a flattened list of n key/value pairs is rendered, by both
\* formatters, as the n rendered pairs in list order with one separator
\* between consecutive pairs: no leading or trailing separator and no empty
\* element, and the empty string for n = 0.
C26_FieldsJoined ==
    fm.op = "FormatFields" =>
        LET n == Len(fm.fields) \div 2
            pairs == [i \in 1..n |->
                        FormatField(fm.fields[2 * i - 1], fm.fields[2 * i])]
            expected == Join(pairs, " ")
        IN  fm.text = expected /\ fm.column = expected

====
